---- MODULE Spec2Model ----
(***************************************************************************)
(* Model of generate_plots.py: the Smogon usage report parser              *)
(* (parse_smogon_data), the module-level pipeline that follows it          *)
(* (cumulative share, type enrichment, the five figures) and the tables    *)
(* the figures are built from (type_counts / sorted_types, usage_tiers).   *)
(*                                                                         *)
(* Text is modelled character by character: a line is a sequence of        *)
(* one-character strings, so that split, strip, rstrip, int() and float()  *)
(* are computed as the code computes them.  A float is a record            *)
(* [k, v]: k = "fin" with v the value in hundredths, k = "inf" with v the  *)
(* sign, or k = "nan".  Input lines carry at most two decimals, no         *)
(* exponent and no digit-group underscore, so the hundredths are exact.    *)
(***************************************************************************)
EXTENDS Integers, Sequences, FiniteSets, TLC

VARIABLES
    file,               \* the lines of the report on disk
    openResult,         \* what open()/reading does: "ok", "FileNotFoundError", "Exception"
    pc,                 \* position of the script
    df_none,            \* df is None
    df,                 \* rows of the DataFrame: [rank, name, usage_percent]
    cumulative_percent, \* column df['cumulative_percent']
    type1,              \* column df['type1']
    type2,              \* column df['type2']
    type_counts,        \* the Counter, as (type, count) pairs in insertion order
    sorted_types,       \* sorted(type_counts.items(), ...)
    usage_tiers,        \* the five (label, count) pairs
    plots,              \* the html files written so far, in order
    out                 \* what was printed, in order

vars == <<file, openResult, pc, df_none, df, cumulative_percent, type1, type2,
          type_counts, sorted_types, usage_tiers, plots, out>>

----------------------------------------------------------------------------
(* Bounds of the explored inputs *)

\* a report is 0..MaxHead arbitrary lines followed by a run of one repeated line
MaxHead == 2

----------------------------------------------------------------------------
(* Program constants *)

\* df.iloc[9]
AnnotRow == 9
\* df.head(50)
TopN == 50
\* usage tier thresholds, in percent
EliteMin == 10
HighMin == 5
MediumMin == 2
LowMin == 1
\* len(parts) > 4
MinParts == 4

FilePath == "gen9ou-0.txt"

pokemon_types ==
    (<<"G","r","e","a","t"," ","T","u","s","k">> :> <<"Ground", "Fighting">>)
    @@ (<<"K","i","n","g","a","m","b","i","t">> :> <<"Dark", "Steel">>)
    @@ (<<"G","h","o","l","d","e","n","g","o">> :> <<"Steel", "Ghost">>)
    @@ (<<"D","r","a","g","o","n","i","t","e">> :> <<"Dragon", "Flying">>)
    @@ (<<"D","r","a","g","a","p","u","l","t">> :> <<"Dragon", "Ghost">>)
    @@ (<<"O","g","e","r","p","o","n","-","W","e","l","l","s","p","r","i","n","g">> :> <<"Grass", "Water">>)
    @@ (<<"I","r","o","n"," ","V","a","l","i","a","n","t">> :> <<"Fairy", "Fighting">>)
    @@ (<<"R","a","g","i","n","g"," ","B","o","l","t">> :> <<"Electric", "Dragon">>)
    @@ (<<"Z","a","m","a","z","e","n","t","a">> :> <<"Fighting", "Steel">>)
    @@ (<<"S","l","o","w","k","i","n","g","-","G","a","l","a","r">> :> <<"Poison", "Psychic">>)
    @@ (<<"L","a","n","d","o","r","u","s","-","T","h","e","r","i","a","n">> :> <<"Ground", "Flying">>)
    @@ (<<"H","a","t","t","e","r","e","n","e">> :> <<"Psychic", "Fairy">>)
    @@ (<<"C","o","r","v","i","k","n","i","g","h","t">> :> <<"Flying", "Steel">>)
    @@ (<<"G","l","i","s","c","o","r">> :> <<"Ground", "Flying">>)
    @@ (<<"C","i","n","d","e","r","a","c","e">> :> <<"Fire", "None">>)
    @@ (<<"I","r","o","n"," ","M","o","t","h">> :> <<"Fire", "Poison">>)
    @@ (<<"T","i","n","g","-","L","u">> :> <<"Dark", "Ground">>)
    @@ (<<"I","r","o","n"," ","T","r","e","a","d","s">> :> <<"Ground", "Steel">>)
    @@ (<<"S","a","m","u","r","o","t","t","-","H","i","s","u","i">> :> <<"Water", "Dark">>)
    @@ (<<"C","e","r","u","l","e","d","g","e">> :> <<"Fire", "Ghost">>)
\* Total battles: 12
L_title == <<"T","o","t","a","l"," ","b","a","t","t","l","e","s",":"," ","1","2">>
\* |Rank|Pokemon|Usage %|Raw|
L_header == <<"|","R","a","n","k","|","P","o","k","e","m","o","n","|","U","s","a","g","e"," ","%","|","R","a","w","|">>
\* |1|Mew|5%|+-|
L_border == <<"|","1","|","M","e","w","|","5","%","|","+","-","|">>
\* |1|Mew|5%
L_short == <<"|","1","|","M","e","w","|","5","%">>
\* |x|Mew|5%|
L_badrank == <<"|","x","|","M","e","w","|","5","%","|">>
\* |1|Mew|n/a|
L_badpct == <<"|","1","|","M","e","w","|","n","/","a","|">>
\*  | 1 | Ting-Lu | 12.0% | 
L_12 == <<" ","|"," ","1"," ","|"," ","T","i","n","g","-","L","u"," ","|"," ","1","2",".","0","%"," ","|"," ">>
\* |2|Kingambit|10%|
L_10 == <<"|","2","|","K","i","n","g","a","m","b","i","t","|","1","0","%","|">>
\* |4|Gliscor|5%|
L_5 == <<"|","4","|","G","l","i","s","c","o","r","|","5","%","|">>
\* |6|Cinderace|2%|
L_2 == <<"|","6","|","C","i","n","d","e","r","a","c","e","|","2","%","|">>
\* |8|Gliscor|1%|
L_1 == <<"|","8","|","G","l","i","s","c","o","r","|","1","%","|">>
\* |9|Mew|0.4%|
L_0_4 == <<"|","9","|","M","e","w","|","0",".","4","%","|">>
\* |0||-5%|
L_neg == <<"|","0","|","|","-","5","%","|">>
\* |1|Mew|nan%|
L_nan == <<"|","1","|","M","e","w","|","n","a","n","%","|">>

----------------------------------------------------------------------------
(* Floats *)

FFin(v) == [k |-> "fin", v |-> v]
FInf(s) == [k |-> "inf", v |-> s]
FNan == [k |-> "nan", v |-> 0]

\* a + b in IEEE arithmetic
FAdd(a, b) ==
    IF a.k = "nan" \/ b.k = "nan" THEN FNan
    ELSE IF a.k = "inf" /\ b.k = "inf" THEN (IF a.v = b.v THEN a ELSE FNan)
    ELSE IF a.k = "inf" THEN a
    ELSE IF b.k = "inf" THEN b
    ELSE FFin(a.v + b.v)

\* a >= n and a < n for a whole number of percent n; false on nan
FGe(a, n) == (a.k = "fin" /\ a.v >= n * 100) \/ (a.k = "inf" /\ a.v = 1)
FLt(a, n) == (a.k = "fin" /\ a.v < n * 100) \/ (a.k = "inf" /\ a.v = -1)

----------------------------------------------------------------------------
(* str operations *)

Whitespace == {" ", "\t", "\n", "\r"}
Digits == {"0", "1", "2", "3", "4", "5", "6", "7", "8", "9"}

DigitVal(c) ==
    CASE c = "0" -> 0 [] c = "1" -> 1 [] c = "2" -> 2 [] c = "3" -> 3 [] c = "4" -> 4
      [] c = "5" -> 5 [] c = "6" -> 6 [] c = "7" -> 7 [] c = "8" -> 8 [] c = "9" -> 9

SetMin(S) == CHOOSE x \in S : \A y \in S : x <= y
SetMax(S) == CHOOSE x \in S : \A y \in S : x >= y

\* pat in s
Contains(pat, s) ==
    \E i \in 1..(Len(s) - Len(pat) + 1) : SubSeq(s, i, i + Len(pat) - 1) = pat

\* s.split(sep) for a one-character sep
RECURSIVE Split(_, _)
Split(s, sep) ==
    LET hits == {i \in 1..Len(s) : s[i] = sep}
    IN  IF hits = {} THEN <<s>>
        ELSE LET i == SetMin(hits)
             IN  <<SubSeq(s, 1, i - 1)>> \o Split(SubSeq(s, i + 1, Len(s)), sep)

\* s.strip()
Strip(s) ==
    LET keep == {i \in 1..Len(s) : s[i] \notin Whitespace}
    IN  IF keep = {} THEN <<>> ELSE SubSeq(s, SetMin(keep), SetMax(keep))

\* s.rstrip('%')
RStripPercent(s) ==
    LET keep == {i \in 1..Len(s) : s[i] # "%"}
    IN  IF keep = {} THEN <<>> ELSE SubSeq(s, 1, SetMax(keep))

AllDigits(s) == \A i \in 1..Len(s) : s[i] \in Digits

RECURSIVE DigitsValue(_)
DigitsValue(s) ==
    IF s = <<>> THEN 0
    ELSE 10 * DigitsValue(SubSeq(s, 1, Len(s) - 1)) + DigitVal(s[Len(s)])

HasSign(s) == s # <<>> /\ s[1] \in {"+", "-"}
SignOf(s) == IF s # <<>> /\ s[1] = "-" THEN -1 ELSE 1
Unsigned(s) == IF HasSign(s) THEN Tail(s) ELSE s

LowerChar(c) ==
    CASE c = "N" -> "n" [] c = "A" -> "a" [] c = "I" -> "i" [] c = "F" -> "f"
      [] c = "T" -> "t" [] c = "Y" -> "y" [] OTHER -> c
Lower(s) == [i \in 1..Len(s) |-> LowerChar(s[i])]

\* int(s): [ok, val]; ok = FALSE is ValueError
ParseInt(s) ==
    LET t == Strip(s)
        body == Unsigned(t)
    IN  IF body # <<>> /\ AllDigits(body)
        THEN [ok |-> TRUE, val |-> SignOf(t) * DigitsValue(body)]
        ELSE [ok |-> FALSE, val |-> 0]

\* the hundredths of a fraction's digits
FracHundredths(fr) ==
    IF Len(fr) = 0 THEN 0
    ELSE IF Len(fr) = 1 THEN 10 * DigitVal(fr[1])
    ELSE 10 * DigitVal(fr[1]) + DigitVal(fr[2])

\* float(s): [ok, val]; ok = FALSE is ValueError
ParseFloat(s) ==
    LET t == Strip(s)
        body == Unsigned(t)
        word == Lower(body)
        pieces == Split(body, ".")
        whole == pieces[1]
        frac == IF Len(pieces) = 2 THEN pieces[2] ELSE <<>>
    IN  IF word = <<"n", "a", "n">> THEN [ok |-> TRUE, val |-> FNan]
        ELSE IF word \in {<<"i", "n", "f">>, <<"i", "n", "f", "i", "n", "i", "t", "y">>}
        THEN [ok |-> TRUE, val |-> FInf(SignOf(t))]
        ELSE IF /\ Len(pieces) <= 2
                /\ AllDigits(whole) /\ AllDigits(frac)
                /\ Len(whole) + Len(frac) > 0
        THEN [ok |-> TRUE,
              val |-> FFin(SignOf(t) * (100 * DigitsValue(whole) + FracHundredths(frac)))]
        ELSE [ok |-> FALSE, val |-> FNan]

----------------------------------------------------------------------------
(* parse_smogon_data *)

\* if '|' not in line or 'Rank' in line or '+-' in line: continue
SkipLine(line) ==
    \/ ~Contains(<<"|">>, line)
    \/ Contains(<<"R", "a", "n", "k">>, line)
    \/ Contains(<<"+", "-">>, line)

\* mutant: the field count test off by one
HasEnoughFields_OffByOne(parts) == Len(parts) > MinParts + 1

\* if len(parts) > 4
HasEnoughFields(parts) == Len(parts) > MinParts

\* the try block: the rows appended for one split line (none on ValueError)
ExtractRecord(parts) ==
    LET rank == ParseInt(Strip(parts[2]))
        name == Strip(parts[3])
        usage_str == Strip(parts[4])
        usage_pct == ParseFloat(RStripPercent(usage_str))
    IN  IF rank.ok /\ usage_pct.ok
        THEN <<[rank |-> rank.val, name |-> name, usage_percent |-> usage_pct.val]>>
        ELSE <<>>

\* the body of the for loop: the rows one line appends to data
ParseLine(line) ==
    IF SkipLine(line) THEN <<>>
    ELSE LET parts == Split(line, "|")
         IN  IF HasEnoughFields(parts) THEN ExtractRecord(parts) ELSE <<>>

\* the for loop: data after the lines, in file order
RECURSIVE ParseLines(_)
ParseLines(lines) ==
    IF lines = <<>> THEN <<>>
    ELSE ParseLines(SubSeq(lines, 1, Len(lines) - 1)) \o ParseLine(lines[Len(lines)])

\* the messages the script prints
MsgNotFound(filepath) == <<"Error: Data file '", filepath, "' not found.">>
MsgDownload ==
    <<"Please download the file from the URL in your report and place it in this directory.">>
MsgError == <<"An error occurred: ", "e">>
MsgLoaded(n) == <<"Successfully loaded and processed ", n, " Pokemon.">>
MsgGenerated(name) == <<"Generated ", name>>
MsgAllDone == <<"All plots generated successfully!">>
MsgTerminated == <<"Script terminated because data file could not be loaded.">>

\* what parse_smogon_data(filepath) prints
ParseOutput(result, filepath) ==
    IF result = "FileNotFoundError" THEN <<MsgNotFound(filepath), MsgDownload>>
    ELSE IF result = "Exception" THEN <<MsgError>>
    ELSE <<>>

----------------------------------------------------------------------------
(* The explored reports *)

LineLib ==
    {L_title, L_header, L_border, L_short, L_badrank, L_badpct,
     L_12, L_10, L_5, L_2, L_1, L_0_4, L_neg, L_nan}

\* the runs of one repeated line that follow the arbitrary lines: the line and
\* how often it repeats, around the sizes the script tests (df.iloc[9], df.head(50))
Pads == {<<L_5, 0>>, <<L_5, AnnotRow>>, <<L_0_4, AnnotRow>>, <<L_5, TopN - 1>>}

SeqsUpTo(S, n) == UNION {[1..k -> S] : k \in 0..n}

Repeat(x, n) == [i \in 1..n |-> x]

Files == {h \o Repeat(p[1], p[2]) : h \in SeqsUpTo(LineLib, MaxHead), p \in Pads}

----------------------------------------------------------------------------
(* The script *)

Init ==
    /\ openResult \in {"ok", "FileNotFoundError", "Exception"}
    /\ file \in (IF openResult = "ok" THEN Files ELSE {<<>>})
    /\ pc = "start"
    /\ df_none = TRUE
    /\ df = <<>>
    /\ cumulative_percent = <<>>
    /\ type1 = <<>>
    /\ type2 = <<>>
    /\ type_counts = <<>>
    /\ sorted_types = <<>>
    /\ usage_tiers = <<>>
    /\ plots = <<>>
    /\ out = <<>>

\* df = parse_smogon_data('gen9ou-0.txt')
Parse ==
    /\ pc = "start"
    /\ pc' = "parsed"
    /\ df_none' = (openResult # "ok")
    /\ df' = IF openResult = "ok" THEN ParseLines(file) ELSE <<>>
    /\ out' = out \o ParseOutput(openResult, FilePath)
    /\ UNCHANGED <<file, openResult, cumulative_percent, type1, type2,
                   type_counts, sorted_types, usage_tiers, plots>>

\* mutant: the emptiness test dropped
HasData_NotNoneOnly == ~df_none

\* if df is not None and not df.empty
HasData == ~df_none /\ df # <<>>

\* else: print("Script terminated ...")
Halt ==
    /\ pc = "parsed"
    /\ ~HasData
    /\ pc' = "halted"
    /\ out' = Append(out, MsgTerminated)
    /\ UNCHANGED <<file, openResult, df_none, df, cumulative_percent, type1, type2,
                   type_counts, sorted_types, usage_tiers, plots>>

----------------------------------------------------------------------------
(* The derived tables *)

\* the column df['usage_percent']
UsageColumn(rows) == [i \in 1..Len(rows) |-> rows[i].usage_percent]

\* the running sums np.cumsum accumulates, in row order
RECURSIVE Accumulate(_)
Accumulate(xs) ==
    IF Len(xs) <= 1 THEN xs
    ELSE LET prev == Accumulate(SubSeq(xs, 1, Len(xs) - 1))
         IN  Append(prev, FAdd(prev[Len(prev)], xs[Len(xs)]))

\* Series.cumsum(): a running sum in row order; a NaN entry counts as 0 in the
\* running sum and is NaN in the result (skipna)
CumSum(xs) ==
    LET masked == [i \in 1..Len(xs) |-> IF xs[i].k = "nan" THEN FFin(0) ELSE xs[i]]
        acc == Accumulate(masked)
    IN  [i \in 1..Len(xs) |-> IF xs[i].k = "nan" THEN FNan ELSE acc[i]]

\* get_types(name)
get_types(name) ==
    IF name \in DOMAIN pokemon_types
    THEN LET types == pokemon_types[name]
         IN  <<types[1], IF types[2] # "None" THEN types[2] ELSE "None">>
    ELSE <<"None", "None">>

\* mutant: no truncation
HeadRows_All(rows, n) == rows

\* df.head(n) / df.iloc[:n]
HeadRows(rows, n) == SubSeq(rows, 1, IF Len(rows) < n THEN Len(rows) ELSE n)

\* what one row adds to the tally: if pd.notna(type1): += 1; if pd.notna(type2): += 1
PresentTags(a, b) ==
    (IF a # "None" THEN <<a>> ELSE <<>>) \o (IF b # "None" THEN <<b>> ELSE <<>>)

\* the increments of the loop over the rows, in the order the loop makes them
RECURSIVE TagSequence(_, _)
TagSequence(t1, t2) ==
    IF t1 = <<>> THEN <<>>
    ELSE TagSequence(SubSeq(t1, 1, Len(t1) - 1), SubSeq(t2, 1, Len(t2) - 1))
         \o PresentTags(t1[Len(t1)], t2[Len(t2)])

\* the Counter after the increments: its keys in the order of their first
\* increment (dict insertion order), each with the number of its increments
Counter(tags) ==
    LET firsts == {i \in 1..Len(tags) : \A j \in 1..(i - 1) : tags[j] # tags[i]}
        nth(k) == CHOOSE i \in firsts : Cardinality({j \in firsts : j < i}) = k - 1
    IN  [k \in 1..Cardinality(firsts) |->
            [type |-> tags[nth(k)],
             count |-> Cardinality({j \in 1..Len(tags) : tags[j] = tags[nth(k)]})]]

\* type_counts after the loop over df.head(50).iterrows()
TypeCounts(t1, t2) == Counter(TagSequence(HeadRows(t1, TopN), HeadRows(t2, TopN)))

\* where sorted(..., key=count, reverse=True) puts x among the already sorted s:
\* after every item whose count is not smaller (the sort is stable)
InsertByCount(s, x) ==
    LET smaller == {i \in 1..Len(s) : s[i].count < x.count}
        at == IF smaller = {} THEN Len(s) + 1 ELSE SetMin(smaller)
    IN  SubSeq(s, 1, at - 1) \o <<x>> \o SubSeq(s, at, Len(s))

\* sorted(type_counts.items(), key=lambda x: x[1], reverse=True)
RECURSIVE SortedByCount(_)
SortedByCount(items) ==
    IF items = <<>> THEN <<>>
    ELSE InsertByCount(SortedByCount(SubSeq(items, 1, Len(items) - 1)), items[Len(items)])

\* the five conditions of usage_tiers
InElite(u) == FGe(u, EliteMin)
\* mutant: the band's closed end on the wrong side
InHigh_ClosedAbove(u) ==
    u.k = "fin" /\ u.v > HighMin * 100 /\ u.v <= EliteMin * 100

InHigh(u) == FGe(u, HighMin) /\ FLt(u, EliteMin)
InMedium(u) == FGe(u, MediumMin) /\ FLt(u, HighMin)
InLow(u) == FGe(u, LowMin) /\ FLt(u, MediumMin)
InRare(u) == FLt(u, LowMin)

\* the boolean Series of a condition on df['usage_percent']
Mask(rows, k) ==
    [i \in 1..Len(rows) |->
        CASE k = 1 -> InElite(rows[i].usage_percent)
          [] k = 2 -> InHigh(rows[i].usage_percent)
          [] k = 3 -> InMedium(rows[i].usage_percent)
          [] k = 4 -> InLow(rows[i].usage_percent)
          [] k = 5 -> InRare(rows[i].usage_percent)]

\* len(df[mask])
CountRows(mask) == Cardinality({i \in 1..Len(mask) : mask[i]})

\* usage_tiers
UsageTiers(rows) ==
    << [label |-> "Elite (>10%)", count |-> CountRows(Mask(rows, 1))],
       [label |-> "High (5-10%)", count |-> CountRows(Mask(rows, 2))],
       [label |-> "Medium (2-5%)", count |-> CountRows(Mask(rows, 3))],
       [label |-> "Low (1-2%)", count |-> CountRows(Mask(rows, 4))],
       [label |-> "Rare (<1%)", count |-> CountRows(Mask(rows, 5))] >>

----------------------------------------------------------------------------
(* The script, after the parse *)

\* df['cumulative_percent'] = df['usage_percent'].cumsum()
Cumsum ==
    /\ pc = "parsed"
    /\ HasData
    /\ pc' = "enrich"
    /\ cumulative_percent' = CumSum(UsageColumn(df))
    /\ UNCHANGED <<file, openResult, df_none, df, type1, type2,
                   type_counts, sorted_types, usage_tiers, plots, out>>

\* df[['type1', 'type2']] = df['name'].apply(...); print("Successfully loaded ...")
Enrich ==
    /\ pc = "enrich"
    /\ pc' = "fig1"
    /\ type1' = [i \in 1..Len(df) |-> get_types(df[i].name)[1]]
    /\ type2' = [i \in 1..Len(df) |-> get_types(df[i].name)[2]]
    /\ out' = Append(out, MsgLoaded(Len(df)))
    /\ UNCHANGED <<file, openResult, df_none, df, cumulative_percent,
                   type_counts, sorted_types, usage_tiers, plots>>

\* df.iloc[9] exists
HasAnnotRow == Len(df) > AnnotRow

\* Visualization 1: df.iloc[0] and df.iloc[9] are read for the annotations;
\* df.iloc[9] raises IndexError on a table of fewer than 10 rows
Fig1 ==
    /\ pc = "fig1"
    /\ IF HasAnnotRow
       THEN /\ pc' = "fig2"
            /\ plots' = Append(plots, "plot1.html")
            /\ out' = Append(out, MsgGenerated("plot1.html"))
       ELSE /\ pc' = "crashed"
            /\ UNCHANGED <<plots, out>>
    /\ UNCHANGED <<file, openResult, df_none, df, cumulative_percent, type1, type2,
                   type_counts, sorted_types, usage_tiers>>

\* Visualization 2: one bar per row of df.head(20)
Fig2 ==
    /\ pc = "fig2"
    /\ pc' = "fig3"
    /\ plots' = Append(plots, "plot2.html")
    /\ out' = Append(out, MsgGenerated("plot2.html"))
    /\ UNCHANGED <<file, openResult, df_none, df, cumulative_percent, type1, type2,
                   type_counts, sorted_types, usage_tiers>>

\* Visualization 3: the cumulative curve of df.iloc[:150]
Fig3 ==
    /\ pc = "fig3"
    /\ pc' = "fig4"
    /\ plots' = Append(plots, "plot3.html")
    /\ out' = Append(out, MsgGenerated("plot3.html"))
    /\ UNCHANGED <<file, openResult, df_none, df, cumulative_percent, type1, type2,
                   type_counts, sorted_types, usage_tiers>>

\* Visualization 4: the tally of the types of the first 50 rows;
\* types, counts = zip(*sorted_types) raises ValueError on an empty tally
Fig4 ==
    /\ pc = "fig4"
    /\ type_counts' = TypeCounts(type1, type2)
    /\ sorted_types' = SortedByCount(type_counts')
    /\ IF sorted_types' # <<>>
       THEN /\ pc' = "fig5"
            /\ plots' = Append(plots, "plot4.html")
            /\ out' = Append(out, MsgGenerated("plot4.html"))
       ELSE /\ pc' = "crashed"
            /\ UNCHANGED <<plots, out>>
    /\ UNCHANGED <<file, openResult, df_none, df, cumulative_percent, type1, type2,
                   usage_tiers>>

\* Visualization 5: the usage tiers over the whole table
Fig5 ==
    /\ pc = "fig5"
    /\ pc' = "done"
    /\ usage_tiers' = UsageTiers(df)
    /\ plots' = Append(plots, "plot5.html")
    /\ out' = out \o <<MsgGenerated("plot5.html"), MsgAllDone>>
    /\ UNCHANGED <<file, openResult, df_none, df, cumulative_percent, type1, type2,
                   type_counts, sorted_types>>

----------------------------------------------------------------------------
(* Properties of the parse *)

\* The rows a report line must yield, written out line by line: a line with a
\* '|', without 'Rank' and '+-', of at least five fields, whose field 1 is an
\* integer and field 3 a float with an optional '%', yields its rank, its
\* trimmed name and its usage; every other line yields nothing.
C1_RowOf(line) ==
    CASE line = L_12 ->
           <<[rank |-> 1, name |-> <<"T", "i", "n", "g", "-", "L", "u">>,
              usage_percent |-> FFin(1200)]>>
      [] line = L_10 ->
           <<[rank |-> 2, name |-> <<"K", "i", "n", "g", "a", "m", "b", "i", "t">>,
              usage_percent |-> FFin(1000)]>>
      [] line = L_5 ->
           <<[rank |-> 4, name |-> <<"G", "l", "i", "s", "c", "o", "r">>,
              usage_percent |-> FFin(500)]>>
      [] line = L_2 ->
           <<[rank |-> 6, name |-> <<"C", "i", "n", "d", "e", "r", "a", "c", "e">>,
              usage_percent |-> FFin(200)]>>
      [] line = L_1 ->
           <<[rank |-> 8, name |-> <<"G", "l", "i", "s", "c", "o", "r">>,
              usage_percent |-> FFin(100)]>>
      [] line = L_0_4 ->
           <<[rank |-> 9, name |-> <<"M", "e", "w">>, usage_percent |-> FFin(40)]>>
      [] line = L_neg ->
           <<[rank |-> 0, name |-> <<>>, usage_percent |-> FFin(-500)]>>
      [] line = L_nan ->
           <<[rank |-> 1, name |-> <<"M", "e", "w">>, usage_percent |-> FNan]>>
      [] OTHER -> <<>>

C1_IsValidLine(line) == C1_RowOf(line) # <<>>

RECURSIVE C1_RowsOf(_)
C1_RowsOf(lines) ==
    IF lines = <<>> THEN <<>>
    ELSE C1_RowsOf(SubSeq(lines, 1, Len(lines) - 1)) \o C1_RowOf(lines[Len(lines)])

C1_ValidCount(lines) == Cardinality({i \in 1..Len(lines) : C1_IsValidLine(lines[i])})

\* C1: parse_smogon_data returns exactly one row per valid data line, with the
\* rank, trimmed name and usage of that line, in file order; the result is the
\* result of parsing the valid lines alone; header, border and malformed lines,
\* and lines whose extraction fails, are skipped without losing the rows of
\* the lines before or after them.
C1_OneRowPerValidLine ==
    (pc = "parsed" /\ openResult = "ok") =>
        /\ ~df_none
        /\ df = C1_RowsOf(file)
        /\ Len(df) = C1_ValidCount(file)
        /\ df = ParseLines(SelectSeq(file, C1_IsValidLine))

\* a valid line, then a line whose extraction fails, then valid lines
C1_Witness ==
    /\ pc = "parsed" /\ openResult = "ok"
    /\ Len(file) > 2
    /\ file[1] = L_12 /\ file[2] = L_badpct
    /\ Len(df) = Len(file) - 1
    /\ df[1].rank = 1 /\ df[2].rank = 4

\* C5: every row the parser emits has rank >= 1, a non-empty name and a usage
\* in [0, 100].
C5_RowsAreUsageRecords ==
    \A i \in 1..Len(df) :
        /\ df[i].rank >= 1
        /\ df[i].name # <<>>
        /\ df[i].usage_percent.k = "fin"
        /\ df[i].usage_percent.v >= 0
        /\ df[i].usage_percent.v <= 100 * 100

----------------------------------------------------------------------------
(* Properties of the run *)

C2_NothingRan ==
    /\ cumulative_percent = <<>>
    /\ type1 = <<>> /\ type2 = <<>>
    /\ type_counts = <<>> /\ sorted_types = <<>>
    /\ usage_tiers = <<>>
    /\ plots = <<>>

\* C2: when the source cannot be opened (df is None) or the parse yields no
\* row, the run goes from the parse straight to its halt and no enrichment,
\* aggregation or plot step is ever executed; these steps run only after a
\* parse that returned at least one row.
C2_HaltOnNoneOrEmpty ==
    /\ (pc # "start" /\ (df_none \/ df = <<>>)) =>
            (pc \in {"parsed", "halted"} /\ C2_NothingRan)
    /\ (pc \in {"enrich", "fig1", "fig2", "fig3", "fig4", "fig5", "done", "crashed"}) =>
            (~df_none /\ df # <<>>)
    /\ ~C2_NothingRan => (~df_none /\ df # <<>>)
    /\ pc = "halted" => (df_none \/ df = <<>>)

\* a run that opened a report of lines none of which is a data line, and halted
C2_Witness ==
    /\ pc = "halted"
    /\ openResult = "ok" /\ ~df_none /\ df = <<>>
    /\ Len(file) = 2
    /\ C2_NothingRan

\* C3: once the parse yields at least one row, no later stage fails.
C3_NoStageFails == pc # "crashed"

C6_Names(msg, path) == \E j \in 1..Len(msg) : msg[j] = path

\* what the runs whose source cannot be opened print
C6_BadPathMessages ==
    {MsgTerminated}
    \cup {ParseOutput("FileNotFoundError", FilePath)[j] : j \in 1..2}
    \cup {ParseOutput("Exception", FilePath)[1]}

\* what the runs whose parse yields no row print
C6_NoDataMessages == {MsgTerminated}

\* C6: a run whose source cannot be opened and a run whose parse yields no row
\* both halt without crashing, each reported with a message of its own that
\* the other does not print; the bad-path message names the path.
C6_DistinctHaltMessages ==
    /\ (pc # "start" /\ (df_none \/ df = <<>>)) => pc # "crashed"
    /\ (pc = "halted" /\ df_none) =>
            /\ \E i \in 1..Len(out) : out[i] \notin C6_NoDataMessages
            /\ openResult = "FileNotFoundError" =>
                    \E i \in 1..Len(out) : C6_Names(out[i], FilePath)
    /\ (pc = "halted" /\ ~df_none) =>
            \E i \in 1..Len(out) : out[i] \notin C6_BadPathMessages

----------------------------------------------------------------------------
(* Properties of the derived tables *)

C9_BadShare(u) == u.k # "fin" \/ u.v < 0

\* C9: a row with a negative or non-finite usage aborts the run before a
\* cumulative-share or tier table is produced from it.
C9_FailFastOnBadShare ==
    (\E i \in 1..Len(df) : C9_BadShare(df[i].usage_percent)) =>
        (cumulative_percent = <<>> /\ usage_tiers = <<>>)

RECURSIVE C10_Sum(_)
C10_Sum(xs) ==
    IF xs = <<>> THEN FFin(0)
    ELSE LET before == C10_Sum(SubSeq(xs, 1, Len(xs) - 1))
         IN  IF before.k = "nan" THEN FNan ELSE FAdd(before, xs[Len(xs)])

C10_Leq(a, b) ==
    /\ a.k # "nan" /\ b.k # "nan"
    /\ \/ (a.k = "fin" /\ b.k = "fin" /\ a.v <= b.v)
       \/ (a.k = "inf" /\ a.v = -1)
       \/ (b.k = "inf" /\ b.v = 1)

\* C10: the cumulative-share column is aligned with the rows, its i-th entry
\* is the sum of the first i usages, it never decreases and its last entry is
\* the total of all usages.
C10_CumulativeShare ==
    (pc \notin {"start", "parsed", "halted"}) =>
        /\ Len(cumulative_percent) = Len(df)
        /\ \A i \in 1..Len(df) :
                cumulative_percent[i] = C10_Sum(SubSeq(UsageColumn(df), 1, i))
        /\ \A i \in 1..(Len(df) - 1) :
                C10_Leq(cumulative_percent[i], cumulative_percent[i + 1])
        /\ cumulative_percent[Len(df)] = C10_Sum(UsageColumn(df))

\* the states in which Visualization 4 has computed its tally
C7_TallyDone == pc \in {"fig5", "done"} \/ (pc = "crashed" /\ Len(plots) = 3)

C7_N == IF Len(df) < 50 THEN Len(df) ELSE 50

C7_Occurrences(t) ==
    Cardinality({i \in 1..C7_N : type1[i] = t}) + Cardinality({i \in 1..C7_N : type2[i] = t})

C7_PresentTags ==
    ({type1[i] : i \in 1..C7_N} \cup {type2[i] : i \in 1..C7_N}) \ {"None"}

\* where a tag is first met: row by row, the primary tag before the secondary
C7_FirstSeen(t) ==
    SetMin({2 * i - 1 : i \in {j \in 1..C7_N : type1[j] = t}}
           \cup {2 * i : i \in {j \in 1..C7_N : type2[j] = t}})

RECURSIVE C7_Total(_)
C7_Total(s) == IF s = <<>> THEN 0 ELSE s[1].count + C7_Total(Tail(s))

\* C7: the tally counts, among the first min(50, len) rows only, one occurrence
\* per present primary tag and one per present secondary tag; the total is at
\* most 2 * N; the output is in descending count order, ties in the order the
\* tags were first met in the prefix.
C7_CategoryTally ==
    C7_TallyDone =>
        /\ {sorted_types[k].type : k \in 1..Len(sorted_types)} = C7_PresentTags
        /\ Len(sorted_types) = Cardinality(C7_PresentTags)
        /\ \A k \in 1..Len(sorted_types) :
                sorted_types[k].count = C7_Occurrences(sorted_types[k].type)
        /\ C7_Total(sorted_types) <= 2 * C7_N
        /\ \A k \in 1..(Len(sorted_types) - 1) :
                \/ sorted_types[k].count > sorted_types[k + 1].count
                \/ /\ sorted_types[k].count = sorted_types[k + 1].count
                   /\ C7_FirstSeen(sorted_types[k].type)
                        < C7_FirstSeen(sorted_types[k + 1].type)

\* a table of more than 50 rows whose tally has a tie and was reordered by the sort
C7_Witness ==
    /\ C7_TallyDone
    /\ Len(df) > 50
    /\ sorted_types # type_counts
    /\ \E k \in 1..(Len(sorted_types) - 1) :
            sorted_types[k].count = sorted_types[k + 1].count
    /\ \E i \in 1..Len(df) : type1[i] # "None" /\ type2[i] = "None"

C8_InRange(u) == u.k = "fin" /\ u.v >= 0 /\ u.v <= 10000

C8_AllInRange(rows) == \A i \in 1..Len(rows) : C8_InRange(rows[i].usage_percent)

\* the band of a usage in [0, 100], in hundredths of a percent:
\* 1 = [10, inf), 2 = [5, 10), 3 = [2, 5), 4 = [1, 2), 5 = [0, 1)
C8_Band(u) ==
    IF u.v >= 1000 THEN 1
    ELSE IF u.v >= 500 THEN 2
    ELSE IF u.v >= 200 THEN 3
    ELSE IF u.v >= 100 THEN 4
    ELSE 5

C8_BandCounts(rows) ==
    [k \in 1..5 |-> Cardinality({i \in 1..Len(rows) : C8_Band(rows[i].usage_percent) = k})]

C8_Counts(tiers) == [k \in 1..5 |-> tiers[k].count]

C8_Labels(tiers) == [k \in 1..5 |-> tiers[k].label]

C8_Row(v) == [rank |-> 1, name |-> <<"x">>, usage_percent |-> FFin(v)]

\* usages 12.0, 6.0, 3.0, 1.5, 0.4
C8_ScenarioD == <<C8_Row(1200), C8_Row(600), C8_Row(300), C8_Row(150), C8_Row(40)>>

\* C8: every row with a usage in [0, 100] is counted in exactly one of the
\* bands [10, inf), [5, 10), [2, 5), [1, 2), [0, 1), a boundary value in the
\* higher band only; the bands are listed in that order whatever the counts.
C8_TierBands ==
    pc = "done" =>
        /\ Len(usage_tiers) = 5
        /\ C8_Labels(usage_tiers) =
             <<"Elite (>10%)", "High (5-10%)", "Medium (2-5%)", "Low (1-2%)", "Rare (<1%)">>
        /\ C8_AllInRange(df) => C8_Counts(usage_tiers) = C8_BandCounts(df)
        /\ LET inRange(r) == C8_InRange(r.usage_percent)
               rows == SelectSeq(df, inRange)
           IN  C8_Counts(UsageTiers(rows)) = C8_BandCounts(rows)
        /\ C8_Counts(UsageTiers(C8_ScenarioD)) = <<1, 1, 1, 1, 1>>

\* a finished run over a table in range with rows on the boundaries 10 and 1
C8_Witness ==
    /\ pc = "done"
    /\ C8_AllInRange(df)
    /\ df[1].usage_percent = FFin(1000)
    /\ df[2].usage_percent = FFin(100)
    /\ usage_tiers[1].count = 1 /\ usage_tiers[4].count = 1 /\ usage_tiers[5].count = 0

\* C4: the five tier counts add up to the number of rows.
C4_TiersExhaustive ==
    pc = "done" =>
        usage_tiers[1].count + usage_tiers[2].count + usage_tiers[3].count
            + usage_tiers[4].count + usage_tiers[5].count = Len(df)

----------------------------------------------------------------------------

Next ==
    \/ Parse
    \/ Halt
    \/ Cumsum
    \/ Enrich
    \/ Fig1
    \/ Fig2
    \/ Fig3
    \/ Fig4
    \/ Fig5

Spec == Init /\ [][Next]_vars

====
